---------------------------- MODULE Spec2Model ----------------------------
(***************************************************************************)
(* A model of yolotolabelme.py: load_class_mapping, the per-file loop of   *)
(* convert_yolo_to_labelme and the completion banner of main.              *)
(*                                                                         *)
(* Strings whose characters the code inspects (file names, paths, class    *)
(* names) are sequences of one-character strings.  An annotation line is   *)
(* the sequence of its tokens, that is the value of                        *)
(* yolo_annotation.strip().split(); a numeric token is the rational        *)
(* <<n, d>> (n/d, d > 0) that float() reads from it.  The token values     *)
(* used below are ones on which IEEE double arithmetic gives the same      *)
(* truncated corners as exact rational arithmetic.                         *)
(***************************************************************************)
EXTENDS Integers, Sequences, FiniteSets, TLC

(***************************************************************************)
(* Bounds of the model.                                                    *)
(***************************************************************************)
MaxFiles == 3
MaxLines == 2
MaxRuns == 2

(***************************************************************************)
(* Strings.                                                                *)
(***************************************************************************)
TXT == <<".", "t", "x", "t">>
JSON == <<".", "j", "s", "o", "n">>
DOTDOT == <<".", ".">>
UNKNOWN == <<"u", "n", "k", "n", "o", "w", "n">>
Whitespace == {" ", "\n", "\t"}

StartsWith(s, pre) ==
    Len(s) >= Len(pre) /\ SubSeq(s, 1, Len(pre)) = pre

EndsWith(s, suf) ==
    Len(s) >= Len(suf) /\ SubSeq(s, Len(s) - Len(suf) + 1, Len(s)) = suf

\* str.replace(old, new): every non-overlapping occurrence, left to right.
RECURSIVE StrReplace(_, _, _)
StrReplace(s, old, new) ==
    IF Len(s) < Len(old) THEN s
    ELSE IF SubSeq(s, 1, Len(old)) = old
         THEN new \o StrReplace(SubSeq(s, Len(old) + 1, Len(s)), old, new)
         ELSE <<Head(s)>> \o StrReplace(Tail(s), old, new)

\* str.strip(): leading and trailing whitespace removed.
RECURSIVE LStrip(_)
LStrip(s) ==
    IF s # <<>> /\ Head(s) \in Whitespace THEN LStrip(Tail(s)) ELSE s

RECURSIVE RStrip(_)
RStrip(s) ==
    IF s # <<>> /\ s[Len(s)] \in Whitespace
    THEN RStrip(SubSeq(s, 1, Len(s) - 1)) ELSE s

StrStrip(s) == RStrip(LStrip(s))

\* Index of the last occurrence of character c in s, 0 when there is none.
LastIndexOf(s, c) ==
    LET hits == {i \in 1..Len(s) : s[i] = c}
    IN  IF hits = {} THEN 0 ELSE CHOOSE i \in hits : \A j \in hits : j <= i

\* os.path.splitext(p)[0]: the extension starts at the last dot after the
\* last separator, unless only dots precede it in the file name.
SplitextRoot(p) ==
    LET sepIndex == LastIndexOf(p, "/")
        dotIndex == LastIndexOf(p, ".")
    IN  IF dotIndex > sepIndex
           /\ \E k \in (sepIndex + 1)..(dotIndex - 1) : p[k] # "."
        THEN SubSeq(p, 1, dotIndex - 1)
        ELSE p

\* os.path.join(a, b) on POSIX.
PathJoin2(a, b) ==
    IF StartsWith(b, <<"/">>) THEN b
    ELSE IF a = <<>> \/ a[Len(a)] = "/" THEN a \o b
    ELSE a \o <<"/">> \o b

PathJoin3(a, b, c) == PathJoin2(PathJoin2(a, b), c)

(***************************************************************************)
(* Numbers: float() of a token is the rational <<n, d>>.                   *)
(***************************************************************************)
RMulInt(x, k) == <<x[1] * k, x[2]>>
RHalf(x) == <<x[1], 2 * x[2]>>
RAdd(x, y) == <<x[1] * y[2] + y[1] * x[2], x[2] * y[2]>>
RSub(x, y) == <<x[1] * y[2] - y[1] * x[2], x[2] * y[2]>>

\* int(x) of a float: truncation toward zero.
IntOfFloat(x) ==
    IF x[1] >= 0 THEN x[1] \div x[2] ELSE -((-x[1]) \div x[2])


(***************************************************************************)
(* load_class_mapping: index -> stripped line.                             *)
(***************************************************************************)
LoadClassMapping(lines) ==
    [index \in 0..(Len(lines) - 1) |-> StrStrip(lines[index + 1])]

(***************************************************************************)
(* One annotation line: geometry and label.                                *)
(***************************************************************************)
\* A variant that rounds to the nearest integer (round) where the code truncates.
CornerLowRounds(c, s, dim) ==
    LET v == RSub(RMulInt(c, dim), RHalf(RMulInt(s, dim)))
    IN  (2 * v[1] + v[2]) \div (2 * v[2])

\* int(c * dim - (s * dim) / 2)
CornerLow(c, s, dim) ==
    IntOfFloat(RSub(RMulInt(c, dim), RHalf(RMulInt(s, dim))))

\* A variant that rounds down (math.floor) where the code truncates.
CornerHighFloor(c, s, dim) ==
    LET v == RAdd(RMulInt(c, dim), RHalf(RMulInt(s, dim)))
    IN  v[1] \div v[2]

\* int(c * dim + (s * dim) / 2)
CornerHigh(c, s, dim) ==
    IntOfFloat(RAdd(RMulInt(c, dim), RHalf(RMulInt(s, dim))))

\* 'points' of a rectangle: [[x1, y1], [x2, y2]]
RectanglePoints(parts, image_width, image_height) ==
    LET x_center == parts[2]
        y_center == parts[3]
        width == parts[4]
        height == parts[5]
    IN  << <<CornerLow(x_center, width, image_width),
             CornerLow(y_center, height, image_height)>>,
           <<CornerHigh(x_center, width, image_width),
             CornerHigh(y_center, height, image_height)>> >>

\* polygon_points = [int(float(x)) for x in annotation_parts[1:]]
PolygonPoints(parts) ==
    [i \in 1..(Len(parts) - 1) |-> IntOfFloat(parts[i + 1])]

\* class_id in class_mapping, for a float class_id and integer keys.
HasKey(class_mapping, class_id) ==
    \E k \in DOMAIN class_mapping : k * class_id[2] = class_id[1]

KeyOf(class_mapping, class_id) ==
    CHOOSE k \in DOMAIN class_mapping : k * class_id[2] = class_id[1]

\* A variant that looks up int(class_id).
ClassLabelTruncating(class_mapping, class_id) ==
    IF IntOfFloat(class_id) \in DOMAIN class_mapping
    THEN class_mapping[IntOfFloat(class_id)]
    ELSE UNKNOWN

\* class_mapping[class_id] if class_id in class_mapping else 'unknown'
ClassLabel(class_mapping, class_id) ==
    IF HasKey(class_mapping, class_id)
    THEN class_mapping[KeyOf(class_mapping, class_id)]
    ELSE UNKNOWN

\* A variant whose lookup takes the entry out (class_mapping.pop).
MappingAfterLookupPop(class_mapping, class_id) ==
    IF HasKey(class_mapping, class_id)
    THEN [k \in DOMAIN class_mapping \ {KeyOf(class_mapping, class_id)}
            |-> class_mapping[k]]
    ELSE class_mapping

\* The lookup only reads the mapping.
MappingAfterLookup(class_mapping, class_id) == class_mapping

Shape(class_label, points, shape_type) ==
    [label |-> class_label, points |-> points, group_id |-> "None",
     shape_type |-> shape_type, flags |-> <<>>]

RectangleShape(parts, image_size, class_mapping) ==
    Shape(ClassLabel(class_mapping, parts[1]),
          RectanglePoints(parts, image_size[1], image_size[2]),
          "rectangle")

PolygonShape(parts, class_mapping) ==
    Shape(ClassLabel(class_mapping, parts[1]),
          <<PolygonPoints(parts)>>,
          "polygon")

(***************************************************************************)
(* Paths and the document of one annotation file.                          *)
(***************************************************************************)
YOLO_DIR == <<"y">>
VERSION == <<"5", ".", "4", ".", "1">>

\* if not img_ext.startswith("."): img_ext = "." + img_ext
NormalizeExt(ext) ==
    IF StartsWith(ext, <<".">>) THEN ext ELSE <<".">> \o ext

\* os.path.join("..", prefix_dir, yolo_annotation_file.replace('.txt', img_ext))
ImagePathOf(name, ext, prefix) ==
    PathJoin3(DOTDOT, prefix, StrReplace(name, TXT, ext))

\* os.path.splitext(yolo_annotation_file)[0] + '.json'
OutputFileOf(name) == SplitextRoot(name) \o JSON

LabelMeData(shapes, path, size) ==
    [version |-> VERSION, flags |-> <<>>, shapes |-> shapes,
     imagePath |-> path, imageData |-> "None",
     imageHeight |-> size[2], imageWidth |-> size[1]]

(***************************************************************************)
(* State.  The inputs (directory listing, annotation files, images,        *)
(* classes file, arguments) are fixed by Init and never change.            *)
(***************************************************************************)
VARIABLES
    dir_listing,        \* os.listdir(yolo_annotation_dir), in enumeration order
    dir_files,          \* annotation file name -> its lines (token sequences)
    images,             \* path of an image that can be opened -> (width, height)
    classes_file,       \* the lines of the classes file
    arg_img_ext,        \* --img_ext as given
    prefix_dir,         \* --prefix_dir
    pc,                 \* where the program is
    class_mapping,
    img_ext,            \* img_ext after normalisation
    file_idx,           \* position of the for loop in dir_listing
    yolo_annotations,
    line_idx,           \* position of the inner loop in yolo_annotations
    labelme_shapes,
    image_path,
    image_size,
    outdir,             \* output directory: file name -> document
    stdout,
    log,                \* this call's reads, probes, writes and banner, in order
    written,            \* this call's writes: entry index, file name, document
    run,                \* number of the current call of convert
    prev_outdir         \* output directory as the previous call left it

inputs == <<dir_listing, dir_files, images, classes_file, arg_img_ext, prefix_dir>>

vars == <<dir_listing, dir_files, images, classes_file, arg_img_ext, prefix_dir,
          pc, class_mapping, img_ext, file_idx, yolo_annotations, line_idx,
          labelme_shapes, image_path, image_size, outdir, stdout, log, written,
          run, prev_outdir>>

NoFiles == <<>>
BANNER == "Conversion completed"

(***************************************************************************)
(* main, up to the call of convert_yolo_to_labelme.                        *)
(***************************************************************************)
LoadMapping ==
    /\ pc = "main"
    /\ class_mapping' = LoadClassMapping(classes_file)
    /\ pc' = "loaded"
    /\ UNCHANGED <<inputs, img_ext, file_idx, yolo_annotations, line_idx,
                   labelme_shapes, image_path, image_size, outdir, stdout,
                   log, written, run, prev_outdir>>

(***************************************************************************)
(* convert_yolo_to_labelme.                                                *)
(***************************************************************************)
EnterConvert ==
    /\ pc = "loaded"
    /\ img_ext' = NormalizeExt(arg_img_ext)
    /\ file_idx' = 1
    /\ pc' = "loop"
    /\ UNCHANGED <<inputs, class_mapping, yolo_annotations, line_idx,
                   labelme_shapes, image_path, image_size, outdir, stdout,
                   log, written, run, prev_outdir>>

\* An entry whose name does not end in .txt.
SkipEntry ==
    /\ pc = "loop"
    /\ file_idx <= Len(dir_listing)
    /\ ~EndsWith(dir_listing[file_idx], TXT)
    /\ file_idx' = file_idx + 1
    /\ UNCHANGED <<inputs, pc, class_mapping, img_ext, yolo_annotations,
                   line_idx, labelme_shapes, image_path, image_size, outdir,
                   stdout, log, written, run, prev_outdir>>

\* A variant that does not start the file with an empty shape list.
ReadFileKeepShapes ==
    /\ pc = "loop"
    /\ file_idx <= Len(dir_listing)
    /\ EndsWith(dir_listing[file_idx], TXT)
    /\ yolo_annotations' = dir_files[dir_listing[file_idx]]
    /\ labelme_shapes' = labelme_shapes
    /\ log' = Append(log, <<"read", file_idx>>)
    /\ pc' = "probe"
    /\ UNCHANGED <<inputs, class_mapping, img_ext, file_idx, line_idx,
                   image_path, image_size, outdir, stdout, written, run,
                   prev_outdir>>

\* open, readlines, labelme_shapes = []
ReadFile ==
    /\ pc = "loop"
    /\ file_idx <= Len(dir_listing)
    /\ EndsWith(dir_listing[file_idx], TXT)
    /\ yolo_annotations' = dir_files[dir_listing[file_idx]]
    /\ labelme_shapes' = <<>>
    /\ log' = Append(log, <<"read", file_idx>>)
    /\ pc' = "probe"
    /\ UNCHANGED <<inputs, class_mapping, img_ext, file_idx, line_idx,
                   image_path, image_size, outdir, stdout, written, run,
                   prev_outdir>>

CandidatePath == ImagePathOf(dir_listing[file_idx], img_ext, prefix_dir)

ProbeImage ==
    /\ pc = "probe"
    /\ PathJoin2(YOLO_DIR, CandidatePath) \in DOMAIN images
    /\ image_path' = CandidatePath
    /\ image_size' = images[PathJoin2(YOLO_DIR, CandidatePath)]
    /\ line_idx' = 1
    /\ log' = Append(log, <<"probe", file_idx>>)
    /\ pc' = "lines"
    /\ UNCHANGED <<inputs, class_mapping, img_ext, file_idx, yolo_annotations,
                   labelme_shapes, outdir, stdout, written, run, prev_outdir>>

\* A variant that goes on with the next entry when the image cannot be opened.
ProbeImageSkipsFile ==
    /\ pc = "probe"
    /\ PathJoin2(YOLO_DIR, CandidatePath) \notin DOMAIN images
    /\ image_path' = CandidatePath
    /\ log' = Append(log, <<"probe", file_idx>>)
    /\ file_idx' = file_idx + 1
    /\ pc' = "loop"
    /\ UNCHANGED <<inputs, class_mapping, img_ext, yolo_annotations, line_idx,
                   labelme_shapes, image_size, outdir, stdout, written, run,
                   prev_outdir>>

\* Image.open raises; nothing catches it, so it also ends main.
ProbeImageFails ==
    /\ pc = "probe"
    /\ PathJoin2(YOLO_DIR, CandidatePath) \notin DOMAIN images
    /\ image_path' = CandidatePath
    /\ log' = Append(log, <<"probe", file_idx>>)
    /\ pc' = "aborted"
    /\ UNCHANGED <<inputs, class_mapping, img_ext, file_idx, yolo_annotations,
                   line_idx, labelme_shapes, image_size, outdir, stdout,
                   written, run, prev_outdir>>

CurrentLine == yolo_annotations[line_idx]

ConvertRectangle ==
    /\ pc = "lines"
    /\ line_idx <= Len(yolo_annotations)
    /\ Len(CurrentLine) = 5
    /\ labelme_shapes' =
           Append(labelme_shapes,
                  RectangleShape(CurrentLine, image_size, class_mapping))
    /\ class_mapping' = MappingAfterLookup(class_mapping, CurrentLine[1])
    /\ line_idx' = line_idx + 1
    /\ UNCHANGED <<inputs, pc, img_ext, file_idx, yolo_annotations, image_path,
                   image_size, outdir, stdout, log, written, run, prev_outdir>>

ConvertPolygon ==
    /\ pc = "lines"
    /\ line_idx <= Len(yolo_annotations)
    /\ Len(CurrentLine) > 5
    /\ labelme_shapes' =
           Append(labelme_shapes, PolygonShape(CurrentLine, class_mapping))
    /\ class_mapping' = MappingAfterLookup(class_mapping, CurrentLine[1])
    /\ line_idx' = line_idx + 1
    /\ UNCHANGED <<inputs, pc, img_ext, file_idx, yolo_annotations, image_path,
                   image_size, outdir, stdout, log, written, run, prev_outdir>>

\* continue
SkipLine ==
    /\ pc = "lines"
    /\ line_idx <= Len(yolo_annotations)
    /\ Len(CurrentLine) < 5
    /\ line_idx' = line_idx + 1
    /\ UNCHANGED <<inputs, pc, class_mapping, img_ext, file_idx,
                   yolo_annotations, labelme_shapes, image_path, image_size,
                   outdir, stdout, log, written, run, prev_outdir>>

WriteOutput ==
    /\ pc = "lines"
    /\ line_idx > Len(yolo_annotations)
    /\ LET labelme_data == LabelMeData(labelme_shapes, image_path, image_size)
           labelme_output_file == OutputFileOf(dir_listing[file_idx])
       IN  /\ outdir' = (labelme_output_file :> labelme_data) @@ outdir
           /\ written' = Append(written, [idx |-> file_idx,
                                          name |-> labelme_output_file,
                                          doc |-> labelme_data])
    /\ log' = Append(log, <<"write", file_idx>>)
    /\ file_idx' = file_idx + 1
    /\ pc' = "loop"
    /\ UNCHANGED <<inputs, class_mapping, img_ext, yolo_annotations, line_idx,
                   labelme_shapes, image_path, image_size, stdout, run,
                   prev_outdir>>

(***************************************************************************)
(* main, after convert_yolo_to_labelme returns.                            *)
(***************************************************************************)
PrintBanner ==
    /\ pc = "loop"
    /\ file_idx > Len(dir_listing)
    /\ stdout' = Append(stdout, BANNER)
    /\ log' = Append(log, <<"banner", 0>>)
    /\ pc' = "done"
    /\ UNCHANGED <<inputs, class_mapping, img_ext, file_idx, yolo_annotations,
                   line_idx, labelme_shapes, image_path, image_size, outdir,
                   written, run, prev_outdir>>

(***************************************************************************)
(* The conversion is called again on the same arguments, the output        *)
(* directory emptied first.  The locals of the finished call are left as   *)
(* they were: the code has to set each before it reads it.                 *)
(***************************************************************************)
Rerun ==
    /\ pc \in {"done", "aborted"}
    /\ run < MaxRuns
    /\ prev_outdir' = outdir
    /\ outdir' = NoFiles
    /\ stdout' = <<>>
    /\ log' = <<>>
    /\ written' = <<>>
    /\ run' = run + 1
    /\ pc' = "loaded"
    /\ UNCHANGED <<inputs, class_mapping, img_ext, file_idx, yolo_annotations,
                   line_idx, labelme_shapes, image_path, image_size>>

Next ==
    \/ LoadMapping
    \/ EnterConvert
    \/ SkipEntry
    \/ ReadFile
    \/ ProbeImage
    \/ ProbeImageFails
    \/ ConvertRectangle
    \/ ConvertPolygon
    \/ SkipLine
    \/ WriteOutput
    \/ PrintBanner
    \/ Rerun

(***************************************************************************)
(* Inputs.                                                                 *)
(***************************************************************************)
A_TXT == <<"a">> \o TXT
B_TXT == <<"b">> \o TXT
A_TXT_TXT == <<"a">> \o TXT \o TXT
DOT_TXT == TXT
DOT_TXT_TXT == TXT \o TXT
A_JPG == <<"a", ".", "j", "p", "g">>

DOT_JPG == <<".", "j", "p", "g">>
Extensions == {DOT_JPG, <<"j", "p", "g">>, <<".", "p">>, <<>>}
Prefixes == {<<>>, <<"p">>, <<"p", "/">>, <<"/", "q">>}

\* Annotation lines, as token sequences.
RECT_EX == << <<0, 1>>, <<1, 2>>, <<1, 2>>, <<1, 5>>, <<2, 5>> >>
RECT_FRAC == << <<3, 2>>, <<1, 4>>, <<1, 2>>, <<1, 2>>, <<1, 2>> >>
RECT_NEG == << <<-1, 1>>, <<-1, 2>>, <<3, 2>>, <<1, 5>>, <<1, 1>> >>
RECT_UNK == << <<7, 1>>, <<1, 4>>, <<1, 4>>, <<1, 2>>, <<1, 2>> >>
SHORT == << <<0, 1>>, <<1, 2>>, <<1, 2>> >>
EMPTY == <<>>
POLY_3 == << <<4, 2>>, <<21, 2>>, <<20, 1>>, <<-3, 2>>, <<40, 1>>,
             <<50, 1>>, <<121, 2>> >>
POLY_ODD == << <<7, 1>>, <<1, 1>>, <<2, 1>>, <<3, 1>>, <<4, 1>>, <<5, 1>> >>
POLY_B == << <<1, 1>>, <<5, 1>>, <<6, 1>>, <<7, 1>>, <<8, 1>>, <<9, 1>>,
             <<10, 1>> >>
LineSet == {RECT_EX, RECT_FRAC, RECT_NEG, SHORT, EMPTY, POLY_3, POLY_ODD}

\* Classes files, as lines.
CAT == <<"c", "a", "t", "\n">>
DOG == <<" ", "d", "o", "g", " ", "\n">>
BIRD == <<"b", "i", "r", "d">>
CLASSES_3 == <<CAT, DOG, BIRD>>
ClassFiles == {CLASSES_3, <<CAT>>, <<>>, <<CAT, <<"\n">>, <<"\t", "x", "\n">> >>}

SIZE_1000 == <<1000, 1000>>
SIZE_640 == <<640, 480>>

\* Directory listings: distinct entries, at most n of them.
Listings(S, n) ==
    UNION {{l \in [1..k -> S] : \A i, j \in 1..k : i # j => l[i] # l[j]}
           : k \in 0..n}

\* Sequences over S of length at most n.
SeqsUpTo(S, n) == UNION {[1..k -> S] : k \in 0..n}

TxtIndices(listing) == {i \in 1..Len(listing) : EndsWith(listing[i], TXT)}
TxtNames(listing) == {listing[i] : i \in TxtIndices(listing)}

\* The batch ends at the first missing image: at most one is taken away.
AbsentChoices(listing) == {{}} \cup {{i} : i \in TxtIndices(listing)}

\* The name without its trailing ".txt".
BaseName(name) == SubSeq(name, 1, Len(name) - Len(TXT))

\* The image files next to the data set: every annotation file outside
\* `absent` has its image, under the stem the data set gave it and under the
\* name the converter looks for.
ImagesFor(listing, absent, ext, prefix, size) ==
    LET e == NormalizeExt(ext)
        paths == UNION {{PathJoin2(YOLO_DIR, ImagePathOf(listing[i], e, prefix)),
                         PathJoin2(YOLO_DIR,
                                   PathJoin3(DOTDOT, prefix,
                                             BaseName(listing[i]) \o e))}
                        : i \in TxtIndices(listing) \ absent}
    IN  [p \in paths |-> size]

ProgramStart ==
    /\ pc = "main"
    /\ class_mapping = <<>>
    /\ img_ext = <<>>
    /\ file_idx = 0
    /\ yolo_annotations = <<>>
    /\ line_idx = 0
    /\ labelme_shapes = <<>>
    /\ image_path = <<>>
    /\ image_size = <<0, 0>>
    /\ outdir = NoFiles
    /\ stdout = <<>>
    /\ log = <<>>
    /\ written = <<>>
    /\ run = 1
    /\ prev_outdir = NoFiles

Setup(listing, files, absent, classes, ext, prefix, size) ==
    /\ dir_listing = listing
    /\ dir_files = files
    /\ images = ImagesFor(listing, absent, ext, prefix, size)
    /\ classes_file = classes
    /\ arg_img_ext = ext
    /\ prefix_dir = prefix
    /\ ProgramStart

\* Batches: any listing, at most one image missing.
BatchNames == {A_TXT, B_TXT, DOT_TXT, DOT_TXT_TXT, A_JPG}
BatchContents == {<<RECT_EX, SHORT, POLY_3>>, <<SHORT>>}

Init ==
    \E listing \in Listings(BatchNames, MaxFiles) :
        \E files \in [TxtNames(listing) -> BatchContents] :
            \E absent \in AbsentChoices(listing) :
                Setup(listing, files, absent, CLASSES_3, DOT_JPG, <<>>,
                      SIZE_1000)

Spec == Init /\ [][Next]_vars

\* Lines: a.txt holds any lines, b.txt three fixed ones.
LineListings == {<<A_TXT, B_TXT>>, <<B_TXT, A_TXT>>, <<A_JPG, A_TXT>>}

InitLines ==
    \E listing \in LineListings :
        \E content \in SeqsUpTo(LineSet, MaxLines) :
            \E absent \in {{}, {2}} :
                \E classes \in ClassFiles :
                    Setup(listing,
                          [n \in TxtNames(listing) |->
                              IF n = A_TXT THEN content
                              ELSE <<POLY_B, SHORT, RECT_UNK>>],
                          absent, classes, DOT_JPG, <<>>, SIZE_640)

SpecLines == InitLines /\ [][Next]_vars

\* Paths: any listing of these names, any extension and prefix.
PathNames == {A_TXT, B_TXT, A_TXT_TXT, A_JPG}

InitPath ==
    \E listing \in Listings(PathNames, MaxFiles) :
        \E absent \in AbsentChoices(listing) :
            \E ext \in Extensions :
                \E prefix \in Prefixes :
                    Setup(listing,
                          [n \in TxtNames(listing) |-> <<RECT_EX, SHORT, POLY_3>>],
                          absent, CLASSES_3, ext, prefix, SIZE_1000)

SpecPath == InitPath /\ [][Next]_vars

\* Rectangles: one file of one five-token line, its image already probed.
CoordValues == {<<-1, 2>>, <<0, 1>>, <<1, 4>>, <<1, 2>>, <<3, 2>>}
ExtentValues == {<<-1, 2>>, <<0, 1>>, <<1, 5>>, <<2, 5>>, <<1, 1>>, <<3, 1>>}
ImageSizes == {SIZE_1000, <<1, 1>>, <<3, 5>>, <<7, 2>>}

InitRect ==
    \E x_center, y_center \in CoordValues :
        \E width, height \in ExtentValues :
            \E size \in ImageSizes :
                LET line == << <<0, 1>>, x_center, y_center, width, height >>
                IN  /\ dir_listing = <<A_TXT>>
                    /\ dir_files = [n \in {A_TXT} |-> <<line>>]
                    /\ images = ImagesFor(<<A_TXT>>, {}, DOT_JPG, <<>>, size)
                    /\ classes_file = CLASSES_3
                    /\ arg_img_ext = DOT_JPG
                    /\ prefix_dir = <<>>
                    /\ pc = "lines"
                    /\ class_mapping = LoadClassMapping(CLASSES_3)
                    /\ img_ext = DOT_JPG
                    /\ file_idx = 1
                    /\ yolo_annotations = <<line>>
                    /\ line_idx = 1
                    /\ labelme_shapes = <<>>
                    /\ image_path = ImagePathOf(A_TXT, DOT_JPG, <<>>)
                    /\ image_size = size
                    /\ outdir = NoFiles
                    /\ stdout = <<>>
                    /\ log = << <<"read", 1>>, <<"probe", 1>> >>
                    /\ written = <<>>
                    /\ run = 1
                    /\ prev_outdir = NoFiles

NextRect ==
    \/ ConvertRectangle
    \/ WriteOutput
    \/ PrintBanner

SpecRect == InitRect /\ [][NextRect]_vars

(***************************************************************************)
(* Properties.                                                             *)
(***************************************************************************)
\* The lines of the annotation file a write came from, and those of them
\* that are not skipped.
LinesOf(w) == dir_files[dir_listing[w.idx]]
Kept(lines) == SelectSeq(lines, LAMBDA l : Len(l) >= 5)
SizeOf(w) == images[PathJoin2(YOLO_DIR, w.doc.imagePath)]

\* c*dim - s*dim/2 and c*dim + s*dim/2 as fractions over CornerDen(c, s).
CornerDen(c, s) == 2 * c[2] * s[2]
LowNum(c, s, dim) == 2 * c[1] * s[2] * dim - s[1] * c[2] * dim
HighNum(c, s, dim) == 2 * c[1] * s[2] * dim + s[1] * c[2] * dim

\* t is n/d (d > 0) with its fractional part dropped: toward zero.
IsTruncation(t, n, d) ==
    IF n >= 0 THEN t * d <= n /\ n < (t + 1) * d
              ELSE (t - 1) * d < n /\ n <= t * d

\* C1: every 5-token line of a written file gives a rectangle whose corners
\* are x_center*W -/+ width*W/2 and y_center*H -/+ height*H/2 truncated toward
\* zero, with no clamping to the image; (0.5, 0.5, 0.2, 0.4) on 1000 x 1000
\* gives (400,300)-(600,700).
C1_RectangleCorners ==
    \A k \in 1..Len(written) :
        LET w == written[k]
            kept == Kept(LinesOf(w))
            size == SizeOf(w)
        IN  \A j \in 1..Len(kept) :
                Len(kept[j]) = 5 =>
                    /\ j <= Len(w.doc.shapes)
                    /\ w.doc.shapes[j].shape_type = "rectangle"
                    /\ LET pts == w.doc.shapes[j].points
                           l == kept[j]
                       IN  /\ Len(pts) = 2
                           /\ Len(pts[1]) = 2
                           /\ Len(pts[2]) = 2
                           /\ IsTruncation(pts[1][1], LowNum(l[2], l[4], size[1]),
                                           CornerDen(l[2], l[4]))
                           /\ IsTruncation(pts[1][2], LowNum(l[3], l[5], size[2]),
                                           CornerDen(l[3], l[5]))
                           /\ IsTruncation(pts[2][1], HighNum(l[2], l[4], size[1]),
                                           CornerDen(l[2], l[4]))
                           /\ IsTruncation(pts[2][2], HighNum(l[3], l[5], size[2]),
                                           CornerDen(l[3], l[5]))
                           /\ (SubSeq(l, 2, 5) = SubSeq(RECT_EX, 2, 5)
                               /\ size = SIZE_1000)
                              => pts = << <<400, 300>>, <<600, 700>> >>

\* A written rectangle with a corner left of the image, a corner right of
\* it, and a negative corner whose exact value is not an integer.
C1_Witness ==
    \E k \in 1..Len(written) :
        LET w == written[k]
            l == LinesOf(w)[1]
        IN  /\ Len(w.doc.shapes) = 1
            /\ w.doc.shapes[1].shape_type = "rectangle"
            /\ w.doc.shapes[1].points[1][1] < 0
            /\ w.doc.shapes[1].points[2][1] > w.doc.imageWidth
            /\ w.doc.shapes[1].points[1][1] * CornerDen(l[2], l[4])
                   # LowNum(l[2], l[4], w.doc.imageWidth)

\* C9: a rectangle made from a line with width >= 0 and height >= 0 has
\* x1 <= x2 and y1 <= y2.
C9_CornersOrdered ==
    \A k \in 1..Len(written) :
        LET w == written[k]
            kept == Kept(LinesOf(w))
        IN  \A j \in 1..Len(kept) :
                (/\ Len(kept[j]) = 5
                 /\ kept[j][4][1] >= 0
                 /\ kept[j][5][1] >= 0)
                => /\ j <= Len(w.doc.shapes)
                   /\ w.doc.shapes[j].points[1][1] <= w.doc.shapes[j].points[2][1]
                   /\ w.doc.shapes[j].points[1][2] <= w.doc.shapes[j].points[2][2]

\* A written rectangle, width and height positive, whose exact corners lie
\* on both sides of zero in x, so that truncation moves them toward each other.
C9_Witness ==
    \E k \in 1..Len(written) :
        LET w == written[k]
            l == LinesOf(w)[1]
        IN  /\ Len(w.doc.shapes) = 1
            /\ Len(l) = 5
            /\ l[4][1] > 0
            /\ l[5][1] > 0
            /\ LowNum(l[2], l[4], w.doc.imageWidth) < 0
            /\ HighNum(l[2], l[4], w.doc.imageWidth) > 0
            /\ LowNum(l[2], l[4], w.doc.imageWidth)
                   # w.doc.shapes[1].points[1][1] * CornerDen(l[2], l[4])

\* The steps of one call; Rerun is the caller's.
ProgramStep ==
    \/ LoadMapping \/ EnterConvert \/ SkipEntry \/ ReadFile \/ ProbeImage
    \/ ProbeImageFails \/ ConvertRectangle \/ ConvertPolygon \/ SkipLine
    \/ WriteOutput \/ PrintBanner

\* The image of entry i is missing: neither the name the code looks for
\* nor any other name of it can be opened.
ImageMissing(i) ==
    PathJoin2(YOLO_DIR, ImagePathOf(dir_listing[i], NormalizeExt(arg_img_ext),
                                    prefix_dir)) \notin DOMAIN images

\* The output directory that the writes of this call add up to.
LastWriteOf(name) ==
    CHOOSE k \in 1..Len(written) :
        /\ written[k].name = name
        /\ \A m \in 1..Len(written) : written[m].name = name => m <= k

WrittenFiles ==
    [name \in {written[k].name : k \in 1..Len(written)}
        |-> written[LastWriteOf(name)].doc]

\* C2: a missing image aborts the batch at that file, with or without valid
\* lines in it: nothing is written for it or for later entries, what was
\* written before stays as it was, no step follows, no banner is printed.
C2_MissingImageAborts ==
    /\ \A i \in 1..Len(dir_listing) :
           (\E e \in 1..Len(log) : log[e] = <<"probe", i>>) /\ ImageMissing(i)
           => pc = "aborted" /\ file_idx = i
    /\ pc = "aborted"
       => /\ ImageMissing(file_idx)
          /\ log[Len(log)] = <<"probe", file_idx>>
          /\ \A e \in 1..Len(log) :
                 log[e][1] = "write" => log[e][2] < file_idx
          /\ \A k \in 1..Len(written) : written[k].idx < file_idx
          /\ outdir = WrittenFiles
          /\ stdout = <<>>
          /\ ~ENABLED ProgramStep

\* The batch aborted at an entry with no valid line, after one entry was
\* written and before another annotation file.
C2_Witness ==
    /\ pc = "aborted"
    /\ Len(written) = 1
    /\ Kept(dir_files[dir_listing[file_idx]]) = <<>>
    /\ file_idx < Len(dir_listing)
    /\ EndsWith(dir_listing[file_idx + 1], TXT)

\* C8: a second call on the same inputs, the output directory emptied,
\* leaves the same files with the same contents as the first.
C8_SecondRunSame ==
    (run >= 2 /\ pc \in {"done", "aborted"}) => outdir = prev_outdir

\* A second call that completed with two files, one with several shapes.
C8_Witness ==
    /\ run = 2
    /\ pc = "done"
    /\ Cardinality(DOMAIN outdir) >= 2
    /\ \E n \in DOMAIN outdir : Len(outdir[n].shapes) >= 2

\* s is raw without its leading and trailing whitespace.
IsStripped(s, raw) ==
    \E i \in 0..Len(raw) :
        \E j \in i..Len(raw) :
            /\ s = SubSeq(raw, i + 1, j)
            /\ \A k \in (1..i) \cup ((j + 1)..Len(raw)) : raw[k] \in Whitespace
            /\ s # <<>> => (s[1] \notin Whitespace /\ s[Len(s)] \notin Whitespace)

\* The label the classes file gives class id n/d.
IsLabelOf(label, class_id) ==
    IF \E N \in 0..(Len(classes_file) - 1) : N * class_id[2] = class_id[1]
    THEN \A N \in 0..(Len(classes_file) - 1) :
             N * class_id[2] = class_id[1]
             => IsStripped(label, classes_file[N + 1])
    ELSE label = UNKNOWN

\* C3: the label of a shape is the stripped line N of the classes file when
\* the class id equals an index N of it, and "unknown" for any other class
\* id; an unknown class id stops neither the lines nor the files that follow.
C3_Labels ==
    /\ \A k \in 1..Len(written) :
           LET w == written[k]
               kept == Kept(LinesOf(w))
           IN  /\ Len(w.doc.shapes) = Len(kept)
               /\ \A j \in 1..Len(kept) :
                      IsLabelOf(w.doc.shapes[j].label, kept[j][1])
    /\ pc = "aborted" => ImageMissing(file_idx)
    /\ pc = "done" =>
           \A i \in TxtIndices(dir_listing) :
               \E k \in 1..Len(written) : written[k].idx = i

\* A completed batch where a fractional class id gave "unknown", the next
\* line of that file a stripped class name, and a later file was written.
C3_Witness ==
    /\ pc = "done"
    /\ Len(written) = 2
    /\ LET w == written[1]
       IN  /\ Len(w.doc.shapes) = 2
           /\ LinesOf(w)[1][1] = <<3, 2>>
           /\ w.doc.shapes[1].label = UNKNOWN
           /\ w.doc.shapes[2].label = BIRD
    /\ written[2].doc.shapes[1].label = <<"d", "o", "g">>

\* The number of shapes of a kind in a document, of lines with a property.
CountShapes(shapes, kind) ==
    Cardinality({j \in 1..Len(shapes) : shapes[j].shape_type = kind})

IsPolygonLine(l) == Len(l) > 5 /\ (Len(l) - 1) % 2 = 0

\* C4 as stated: 5 tokens give a rectangle, more than 5 a polygon only when
\* the number of values after the class id is even, fewer than 5 nothing.
C4_Classification ==
    \A k \in 1..Len(written) :
        LET w == written[k]
            lines == LinesOf(w)
        IN  /\ CountShapes(w.doc.shapes, "rectangle")
                   = Cardinality({j \in 1..Len(lines) : Len(lines[j]) = 5})
            /\ CountShapes(w.doc.shapes, "polygon")
                   = Cardinality({j \in 1..Len(lines) : IsPolygonLine(lines[j])})
            /\ Len(w.doc.shapes) = CountShapes(w.doc.shapes, "rectangle")
                                   + CountShapes(w.doc.shapes, "polygon")

\* The shape the code makes of a kept line.
ShapeOfLine(l, size) ==
    IF Len(l) = 5
    THEN RectangleShape(l, size, LoadClassMapping(classes_file))
    ELSE PolygonShape(l, LoadClassMapping(classes_file))

\* C5: the shapes of a written document are those of the non-skipped lines
\* of its own file, one each, in the order of the lines.
C5_ShapesInLineOrder ==
    \A k \in 1..Len(written) :
        LET w == written[k]
            kept == Kept(LinesOf(w))
        IN  w.doc.shapes = [j \in 1..Len(kept) |-> ShapeOfLine(kept[j], SizeOf(w))]

\* Two files written in one call: the first with shapes, the second with a
\* skipped line between a polygon and a rectangle.
C5_Witness ==
    /\ Len(written) = 2
    /\ Len(written[1].doc.shapes) = 2
    /\ written[1].doc.shapes[1].shape_type = "rectangle"
    /\ written[1].doc.shapes[2].shape_type = "polygon"
    /\ Len(LinesOf(written[2])) = 3
    /\ Len(written[2].doc.shapes) = 2
    /\ written[2].doc.shapes[1].shape_type = "polygon"
    /\ written[2].doc.shapes[2].shape_type = "rectangle"

\* C6 as stated: the points of a polygon made from c1..c2n are the n pairs
\* <<trunc c(2i-1), trunc c(2i)>>, in order and unscaled.
C6_PolygonPairs ==
    \A k \in 1..Len(written) :
        LET w == written[k]
            kept == Kept(LinesOf(w))
        IN  \A j \in 1..Len(kept) :
                (IsPolygonLine(kept[j]) /\ j <= Len(w.doc.shapes)) =>
                    LET pts == w.doc.shapes[j].points
                        n == (Len(kept[j]) - 1) \div 2
                    IN  /\ Len(pts) = n
                        /\ \A i \in 1..n :
                               /\ Len(pts[i]) = 2
                               /\ IsTruncation(pts[i][1], kept[j][2 * i][1],
                                               kept[j][2 * i][2])
                               /\ IsTruncation(pts[i][2], kept[j][2 * i + 1][1],
                                               kept[j][2 * i + 1][2])

\* The log of a call that read, probed and wrote the annotation files one
\* after the other in listing order, then printed the banner.
RECURSIVE SequentialLog(_)
SequentialLog(i) ==
    IF i > Len(dir_listing) THEN << <<"banner", 0>> >>
    ELSE IF EndsWith(dir_listing[i], TXT)
         THEN << <<"read", i>>, <<"probe", i>>, <<"write", i>> >>
              \o SequentialLog(i + 1)
         ELSE SequentialLog(i + 1)

\* C7 as stated: a run in which no step fails handles the files one after
\* the other in listing order and ends with exactly one output file
\* <base-name>.json for every entry ending in .txt and none for any other,
\* the mapping as loaded, the banner last.  The base name is taken as the
\* code takes it (os.path.splitext).
C7_OneOutputPerFile ==
    pc = "done" =>
        /\ log = SequentialLog(1)
        /\ DOMAIN outdir = {OutputFileOf(n) : n \in TxtNames(dir_listing)}
        /\ Cardinality(DOMAIN outdir) = Cardinality(TxtIndices(dir_listing))
        /\ class_mapping = LoadClassMapping(classes_file)
        /\ stdout = <<BANNER>>

\* C10 as stated: imagePath is the join of "..", the prefix and the base
\* name (the name without its trailing .txt) followed by the extension, a
\* dot put before the extension if it has none; the output file is that
\* base name followed by .json.
C10_ImagePath ==
    \A k \in 1..Len(written) :
        LET w == written[k]
            base == BaseName(dir_listing[w.idx])
            ext == IF arg_img_ext # <<>> /\ arg_img_ext[1] = "."
                   THEN arg_img_ext ELSE <<".">> \o arg_img_ext
        IN  /\ w.doc.imagePath = PathJoin3(DOTDOT, prefix_dir, base \o ext)
            /\ w.name = base \o JSON

=============================================================================
